---------------------------- MODULE Spec2Model ----------------------------
(***************************************************************************)
(* cagey-math: fixed-size vectors (2/3/4 components) and 2x2 column-major  *)
(* matrices.  The library is a set of pure value operations; the model     *)
(* keeps two vector objects, a vector built from the first, two matrix     *)
(* objects and the registers holding the result of the last operation      *)
(* applied to them.                                                        *)
(*                                                                         *)
(* Element values are exact rationals [n |-> numerator, d |-> denominator].*)
(* An integer element type only ever holds d = 1 and divides by            *)
(* truncation, as C++ does.  A floating element type rounds the result of  *)
(* every operation to the nearest value with MantissaBits significant      *)
(* binary digits, ties to even; exponent range is not limited.  The        *)
(* element type "uint8" reduces every result modulo 2^8.                   *)
(***************************************************************************)
EXTENDS Integers, Sequences, FiniteSets, TLC

VARIABLES
    T,            \* element type of the objects: "int", "float", "uint8";
                  \* for the type trait, the C++ type it is asked about
    N,            \* Size of the vector object
    elements,     \* the vector's storage, elements[0] .. elements[N-1]
    lastWritten,  \* per component, the value most recently written to it
    scalar,       \* the scalar operand of the last operation
    columns,      \* the matrix object, columns[col][row]
    columns2,     \* a second matrix operand
    vresult,      \* vector result of the last operation
    vresult2,     \* second vector result (for two-sided laws)
    mresult,      \* matrix result of the last operation
    mresult2,     \* second matrix result
    op,           \* the last operation applied
    member,       \* the named member or conversion last used, "" if none
    elements2,    \* a second vector operand
    produced,     \* the vector built from the vector object by a conversion
    sresult,      \* scalar result of the last operation
    sresult2,     \* second scalar result
    bresult,      \* boolean result of the last operation
    bresult2,     \* second boolean result
    dataModel     \* the build's data model, which names the fixed-width types

vars == <<T, N, elements, lastWritten, scalar, columns, columns2,
          vresult, vresult2, mresult, mresult2, op, member,
          elements2, produced, sresult, sresult2, bresult, bresult2,
          dataModel>>

---------------------------------------------------------------------------
(* Bounds of the model *)

\* elements of the vector object are drawn from -1 .. MaxElem
MaxElem == 2

\* elements of the matrix object, and of its vector and scalar operands, are
\* drawn from -1 .. MaxMatElem
MaxMatElem == 1

\* entries of the right-hand matrix and of the vector in the composition law
\* are the literals 1 .. MaxOperand (integer type) or 0.1 .. MaxOperand/10
\* (floating type)
MaxOperand == 2

\* binary digits in the significand of the floating element type
MantissaBits == 8

---------------------------------------------------------------------------
(* Element arithmetic: the built-in arithmetic of the element type T *)

Abs(x) == IF x < 0 THEN -x ELSE x

RECURSIVE Gcd(_, _)
Gcd(a, b) == IF b = 0 THEN a ELSE Gcd(b, a % b)

\* the value n/d in lowest terms with a positive denominator
Rat(n, d) ==
    LET g == Gcd(Abs(n), Abs(d))
        sg == IF d < 0 THEN -1 ELSE 1
    IN  [n |-> sg * (n \div g), d |-> Abs(d) \div g]

\* an integer literal converted to T, as T(k) / static_cast<T>(k)
Lit(k) == [n |-> k, d |-> 1]

Zero == Lit(0)
One == Lit(1)

Neg(a) == [n |-> -a.n, d |-> a.d]

RECURSIVE Pow2(_)
Pow2(k) == IF k = 0 THEN 1 ELSE 2 * Pow2(k - 1)

\* the significand of a normalised value lies in [MinSignificand, MaxSignificand)
MinSignificand == Pow2(MantissaBits - 1)
MaxSignificand == Pow2(MantissaBits)

\* (n/d) * (up/down), n/d > 0, rounded to the nearest value with MantissaBits
\* significant binary digits, ties to the even significand: n/d is halved or
\* doubled into [MinSignificand, MaxSignificand), up/down keeping the
\* power of two taken out, and rounded there to an integer
RECURSIVE RoundToNearest(_, _, _, _)
RoundToNearest(n, d, up, down) ==
    IF n \div d >= MaxSignificand
    THEN RoundToNearest(n, 2 * d, 2 * up, down)
    ELSE IF n \div d < MinSignificand
    THEN IF d % 2 = 0 THEN RoundToNearest(n, d \div 2, up, 2 * down)
         ELSE RoundToNearest(2 * n, d, up, 2 * down)
    ELSE IF 2 * (n % d) > d \/ (2 * (n % d) = d /\ (n \div d) % 2 = 1)
    THEN Rat(((n \div d) + 1) * up, down)
    ELSE Rat((n \div d) * up, down)

\* std::uint8_t holds the values 0 .. Uint8Modulus - 1
Uint8Bits == 8
Uint8Modulus == Pow2(Uint8Bits)

\* the exact value x as element type t stores it: "int" stands for a signed
\* integer type wide enough for x, "uint8" reduces modulo 2^8
Round(t, x) ==
    IF t = "uint8" THEN Lit(x.n % Uint8Modulus)
    ELSE IF t = "int" \/ x.n = 0 THEN x
    ELSE IF x.n < 0 THEN Neg(RoundToNearest(-x.n, x.d, 1, 1))
    ELSE RoundToNearest(x.n, x.d, 1, 1)

\* a + b, a - b, a * b in element type t
\* (sums are taken over the least common denominator)
Lcm(a, b) == (a \div Gcd(a, b)) * b
Add(t, a, b) ==
    Round(t, Rat(a.n * (Lcm(a.d, b.d) \div a.d) + b.n * (Lcm(a.d, b.d) \div b.d),
                 Lcm(a.d, b.d)))
Sub(t, a, b) ==
    Round(t, Rat(a.n * (Lcm(a.d, b.d) \div a.d) - b.n * (Lcm(a.d, b.d) \div b.d),
                 Lcm(a.d, b.d)))
Mul(t, a, b) == Round(t, Rat(a.n * b.n, a.d * b.d))

\* C++ integer division truncates toward zero
TruncDiv(a, b) ==
    LET q == Abs(a) \div Abs(b)
    IN  IF (a < 0) = (b < 0) THEN q ELSE -q

\* a / b in element type t; b is not zero
Div(t, a, b) ==
    IF t # "float" THEN Lit(TruncDiv(a.n, b.n))
    ELSE Round(t, Rat(a.n * b.d, a.d * b.n))

\* |a - b| <= tol, compared exactly
Within(a, b, tol) ==
    LET diff == Rat(a.n * b.d - b.n * a.d, a.d * b.d)
    IN  Abs(diff.n) * tol.d <= tol.n * diff.d

\* a <= b for values with positive denominators
LessEq(a, b) ==
    a.n * (b.d \div Gcd(a.d, b.d)) <= b.n * (a.d \div Gcd(a.d, b.d))

AbsValue(a) == [n |-> Abs(a.n), d |-> a.d]

ElementTypes == {"int", "float"}
Sizes == {2, 3, 4}
Elems == {Lit(k) : k \in -1 .. MaxElem}
MatElems == {Lit(k) : k \in -1 .. MaxMatElem}

\* the literal k (integer type) or k/10 (floating type: 0.1f, 0.2f, ...) as
\* element type t stores it
Literal(t, k) == IF t = "int" THEN Lit(k) ELSE Round(t, Rat(k, 10))
Operands(t) == {Literal(t, k) : k \in 1 .. MaxOperand}

Indices(n) == 0 .. n - 1

---------------------------------------------------------------------------
(* Vector<T,N> *)

\* Vector(T x, T y [, T z [, T w]]) : elements{x, y, ...}
ComponentCtor(n, xs) == [i \in Indices(n) |-> xs[i + 1]]

\* explicit Vector(T const v)
\*   Vector<T,2>: elements{v, v}
\*   Vector<T,3>: elements{v, v, v}
\*   Vector<T,4>: elements{v, v, v}  -- the fourth element is value-initialised
ScalarCtor(n, v) ==
    [i \in Indices(n) |-> IF n = 4 /\ i = 3 THEN Zero ELSE v]

\* Vector() = default : the union has no default member initialiser, so a
\* default-initialised object holds indeterminate elements
DefaultCtorOutcomes(n) == [Indices(n) -> Elems]


\* The anonymous union of Vector<T,N>: besides the arrays (elements,
\* rawElements) it holds anonymous structs whose fields overlay the array in
\* declaration order.
UnionStructs(n) ==
    CASE n = 2 -> {<<"x", "y">>, <<"r", "g">>, <<"w", "h">>}
      [] n = 3 -> {<<"x", "y", "z">>, <<"r", "g", "b">>}
      [] n = 4 -> {<<"x", "y", "z", "w">>, <<"r", "g", "b", "a">>}

\* the named members of a Vector<T,n>
Aliases(n) == UNION {{st[j] : j \in 1 .. Len(st)} : st \in UnionStructs(n)}

\* offset (in elements of T) of a named member within the union: its position
\* in the anonymous struct that declares it
AliasOffsetSwapped(n, name) ==
    LET st == CHOOSE q \in UnionStructs(n) : \E j \in 1 .. Len(q) : q[j] = name
        j == CHOOSE k \in 1 .. Len(st) : st[k] = name
    IN  IF name \in {"w", "h"} /\ n = 2 THEN Len(st) - j ELSE j - 1

AliasOffset(n, name) ==
    LET st == CHOOSE q \in UnionStructs(n) : \E j \in 1 .. Len(q) : q[j] = name
    IN  (CHOOSE j \in 1 .. Len(st) : st[j] = name) - 1

\* reading v.name
ReadAlias(n, e, name) == e[AliasOffset(n, name)]

\* v.name = k
WriteAliasTo(n, e, name, k) == [e EXCEPT ![AliasOffset(n, name)] = k]

\* operator[](i) : elements[i]
ReadIndex(e, i) == e[i]

\* v[i] = k
WriteIndexTo(e, i, k) == [e EXCEPT ![i] = k]

\* Vector::operator/=(scalar) : every element divided by the scalar
VecDivAssign(t, n, e, v) == [i \in Indices(n) |-> Div(t, e[i], v)]

\* Vector::operator-=(scalar) : the scalar subtracted from every element
VecSubAssign(t, n, e, v) == [i \in Indices(n) |-> Sub(t, e[i], v)]

\* operator/(U const lhs, Vector<T,N> rhs) { return rhs /= lhs; }
ScalarDivVector(t, n, lhs, rhs) == VecDivAssign(t, n, rhs, lhs)

\* detail::metaDivide(lhs, rhs, Indices) { return {lhs / rhs[I]...}; }
MetaDivide(t, n, lhs, rhs) == [i \in Indices(n) |-> Div(t, lhs, rhs[i])]

\* detail::equal(first1, last1, first2): element-wise, stops at the first
\* difference
RECURSIVE EqualFrom(_, _, _, _)
EqualFrom(a, b, i, n) ==
    IF i = n THEN TRUE
    ELSE IF a[i] # b[i] THEN FALSE
    ELSE EqualFrom(a, b, i + 1, n)

\* operator==(Vector<T,N>, Vector<T,N>)
VecEq(n, a, b) == EqualFrom(a, b, 0, n)

---------------------------------------------------------------------------
(* Matrix<T,2,2> : std::array<ColumnType, 2> columns, element (row r, col c) *)
(* is columns[c][r]                                                          *)

Cols == 2
Rows == 2

\* Matrix(ColumnType const &col0, ColumnType const &col1) : columns{{col0, col1}}
MatrixFromColumns(col0, col1) == [c \in Indices(Cols) |-> IF c = 0 THEN col0 ELSE col1]

\* Matrix(T x1, T y1, T x2, T y2): columns[0][0] = x1; columns[0][1] = y1;
\*                                 columns[1][0] = x2; columns[1][1] = y2
MatrixFromElements(x1, y1, x2, y2) ==
    [c \in Indices(Cols) |->
        [r \in Indices(Rows) |->
            IF c = 0 THEN (IF r = 0 THEN x1 ELSE y1)
            ELSE (IF r = 0 THEN x2 ELSE y2)]]

\* explicit Matrix(T v) : Matrix(ColumnType{v, v}, ColumnType{v, v})
MatrixFill(v) ==
    MatrixFromColumns(ComponentCtor(2, <<v, v>>), ComponentCtor(2, <<v, v>>))

\* identity() { return Matrix{{1, 0}, {0, 1}}; }
IdentityOffDiagonal ==
    MatrixFromColumns([i \in Indices(2) |-> IF i = 0 THEN Zero ELSE One],
                      [i \in Indices(2) |-> IF i = 0 THEN One ELSE Zero])

Identity ==
    MatrixFromColumns([i \in Indices(2) |-> IF i = 0 THEN One ELSE Zero],
                      [i \in Indices(2) |-> IF i = 0 THEN Zero ELSE One])

\* operator*(Matrix const &lhs, RowType const &rhs)
\*   {lhs[0][0] * rhs.x + lhs[1][0] * rhs.y, lhs[0][1] * rhs.x + lhs[1][1] * rhs.y}
MatVecRowMajor(t, lhs, rhs) ==
    [i \in Indices(2) |->
        IF i = 0
        THEN Add(t, Mul(t, lhs[0][0], ReadAlias(2, rhs, "x")), Mul(t, lhs[0][1], ReadAlias(2, rhs, "y")))
        ELSE Add(t, Mul(t, lhs[1][0], ReadAlias(2, rhs, "x")), Mul(t, lhs[1][1], ReadAlias(2, rhs, "y")))]

MatVec(t, lhs, rhs) ==
    [i \in Indices(2) |->
        IF i = 0
        THEN Add(t, Mul(t, lhs[0][0], ReadAlias(2, rhs, "x")), Mul(t, lhs[1][0], ReadAlias(2, rhs, "y")))
        ELSE Add(t, Mul(t, lhs[0][1], ReadAlias(2, rhs, "x")), Mul(t, lhs[1][1], ReadAlias(2, rhs, "y")))]

\* operator*(ColumnType const &lhs, Matrix const &rhs)
\*   {lhs.x * rhs[0][0] + lhs.y * rhs[0][1], lhs.x * rhs[1][0] + lhs.y * rhs[1][1]}
VecMat(t, lhs, rhs) ==
    [i \in Indices(2) |->
        IF i = 0
        THEN Add(t, Mul(t, ReadAlias(2, lhs, "x"), rhs[0][0]), Mul(t, ReadAlias(2, lhs, "y"), rhs[0][1]))
        ELSE Add(t, Mul(t, ReadAlias(2, lhs, "x"), rhs[1][0]), Mul(t, ReadAlias(2, lhs, "y"), rhs[1][1]))]

\* operator*(Matrix const &lhs, Matrix const &rhs)
\*   Matrix{lhs[0][0]*rhs[0][0] + lhs[1][0]*rhs[0][1],
\*          lhs[0][1]*rhs[0][0] + lhs[1][1]*rhs[0][1],
\*          lhs[0][0]*rhs[1][0] + lhs[1][0]*rhs[1][1],
\*          lhs[0][1]*rhs[1][0] + lhs[1][1]*rhs[1][1]}
MatMulReversed(t, lhs, rhs) ==
    MatrixFromElements(
        Add(t, Mul(t, rhs[0][0], lhs[0][0]), Mul(t, rhs[1][0], lhs[0][1])),
        Add(t, Mul(t, rhs[0][1], lhs[0][0]), Mul(t, rhs[1][1], lhs[0][1])),
        Add(t, Mul(t, rhs[0][0], lhs[1][0]), Mul(t, rhs[1][0], lhs[1][1])),
        Add(t, Mul(t, rhs[0][1], lhs[1][0]), Mul(t, rhs[1][1], lhs[1][1])))

MatMulElementwise(t, lhs, rhs) ==
    MatrixFromElements(Mul(t, lhs[0][0], rhs[0][0]), Mul(t, lhs[0][1], rhs[0][1]),
                       Mul(t, lhs[1][0], rhs[1][0]), Mul(t, lhs[1][1], rhs[1][1]))

MatMul(t, lhs, rhs) ==
    MatrixFromElements(
        Add(t, Mul(t, lhs[0][0], rhs[0][0]), Mul(t, lhs[1][0], rhs[0][1])),
        Add(t, Mul(t, lhs[0][1], rhs[0][0]), Mul(t, lhs[1][1], rhs[0][1])),
        Add(t, Mul(t, lhs[0][0], rhs[1][0]), Mul(t, lhs[1][0], rhs[1][1])),
        Add(t, Mul(t, lhs[0][1], rhs[1][0]), Mul(t, lhs[1][1], rhs[1][1])))

\* Matrix::operator-=(U const &value) : columns[0] -= value; columns[1] -= value
MatSubAssign(t, m, value) == [c \in Indices(Cols) |-> VecSubAssign(t, 2, m[c], value)]

\* operator-(U const lhs, Matrix<T,C,R> rhs) { return rhs -= lhs; }
ScalarMinusMatrix(t, lhs, rhs) == MatSubAssign(t, rhs, lhs)

\* operator-(Matrix<T,C,R> lhs, U const rhs) { return lhs -= rhs; }
MatrixMinusScalar(t, lhs, rhs) == MatSubAssign(t, lhs, rhs)

\* operator==(Matrix, Matrix) : detail::equal over the columns
MatEq(a, b) == \A c \in Indices(Cols) : VecEq(2, a[c], b[c])

\* determinantImpl<T,2,2>::exec : mat[0][0] * mat[1][1] - mat[1][0] * mat[0][1]
DeterminantNegated(t, mat) == Sub(t, Mul(t, mat[1][0], mat[0][1]), Mul(t, mat[0][0], mat[1][1]))

DeterminantDiagonal(t, mat) == Mul(t, mat[0][0], mat[1][1])

DeterminantPlus(t, mat) == Add(t, Mul(t, mat[0][0], mat[1][1]), Mul(t, mat[1][0], mat[0][1]))

Determinant(t, mat) == Sub(t, Mul(t, mat[0][0], mat[1][1]), Mul(t, mat[1][0], mat[0][1]))

\* transposeImpl<T,2,2>::exec: Matrix<T,2,2> result; then
\*   result[0][0] = mat[0][0]; result[0][1] = mat[1][0];
\*   result[1][0] = mat[0][1]; result[1][1] = mat[1][1];
\* result is the default-constructed matrix the four writes go to
TransposeDiagonalSwapped(result, mat) ==
    [result EXCEPT ![0][0] = mat[1][1], ![0][1] = mat[1][0],
                   ![1][0] = mat[0][1], ![1][1] = mat[0][0]]

TransposeCopy(result, mat) ==
    [result EXCEPT ![0][0] = mat[0][0], ![0][1] = mat[0][1],
                   ![1][0] = mat[1][0], ![1][1] = mat[1][1]]

Transpose(result, mat) ==
    [result EXCEPT ![0][0] = mat[0][0], ![0][1] = mat[1][0],
                   ![1][0] = mat[0][1], ![1][1] = mat[1][1]]

\* inverse(m) for 2x2 (MatrixFunc): the adjugate divided by the determinant,
\*   {{m11/det, -m01/det}, {-m10/det, m00/det}}, columns first
Inverse(t, mat) ==
    LET det == Determinant(t, mat)
    IN  MatrixFromColumns(
            ComponentCtor(2, <<Div(t, mat[1][1], det), Div(t, Neg(mat[0][1]), det)>>),
            ComponentCtor(2, <<Div(t, Neg(mat[1][0]), det), Div(t, mat[0][0], det)>>))

---------------------------------------------------------------------------
(* The vector object and the operations applied to it *)

ZeroVector(n) == [i \in Indices(n) |-> Zero]
ZeroMatrix == [c \in Indices(Cols) |-> ZeroVector(Rows)]

\* the second vector operand, the produced vector and the scalar and boolean
\* results, where an operation does not involve them
others == <<elements2, produced, sresult, sresult2, bresult, bresult2>>

NoVector == [own |-> TRUE, size |-> 0, elements |-> ZeroVector(0)]

NoOthers ==
    /\ elements2 = ZeroVector(0)
    /\ produced = NoVector
    /\ sresult = Zero
    /\ sresult2 = Zero
    /\ bresult = FALSE
    /\ bresult2 = FALSE
    /\ dataModel = "LP64"

NoResults(n) ==
    /\ vresult' = ZeroVector(n)
    /\ vresult2' = ZeroVector(n)
    /\ mresult' = ZeroMatrix
    /\ mresult2' = ZeroMatrix

\* Vector<T,N> v{x, y, ...}: an object built by the per-component constructor
Init ==
    /\ T \in ElementTypes
    /\ N \in Sizes
    /\ elements \in [Indices(N) -> Elems]
    /\ lastWritten = elements
    /\ scalar = Zero
    /\ columns = ZeroMatrix
    /\ columns2 = ZeroMatrix
    /\ vresult = ZeroVector(N)
    /\ vresult2 = ZeroVector(N)
    /\ mresult = ZeroMatrix
    /\ mresult2 = ZeroMatrix
    /\ op = "component_ctor"
    /\ member = ""
    /\ NoOthers

\* Vector<T,n> v(k).  A constructor builds a fresh object: its result does
\* not depend on the object it replaces, so it is taken from the initial
\* object only.
ConstructScalar(n, k) ==
    /\ op = "component_ctor"
    /\ N' = n
    /\ elements' = ScalarCtor(n, k)
    /\ lastWritten' = elements'
    /\ scalar' = k
    /\ op' = "scalar_ctor"
    /\ member' = ""
    /\ NoResults(n)
    /\ UNCHANGED others
    /\ UNCHANGED <<dataModel, T, columns, columns2>>

\* Vector<T,n> v;
ConstructDefault(n) ==
    /\ op = "component_ctor"
    /\ N' = n
    /\ elements' \in DefaultCtorOutcomes(n)
    /\ lastWritten' = elements'
    /\ scalar' = Zero
    /\ op' = "default_ctor"
    /\ member' = ""
    /\ NoResults(n)
    /\ UNCHANGED others
    /\ UNCHANGED <<dataModel, T, columns, columns2>>

\* v.name = k
WriteAlias(name, k) ==
    /\ name \in Aliases(N)
    /\ elements' = WriteAliasTo(N, elements, name, k)
    /\ lastWritten' =
         [lastWritten EXCEPT
            ![CASE name \in {"x", "r"} -> 0
                [] name \in {"y", "g", "h"} -> 1
                [] name \in {"z", "b"} -> 2
                [] name = "a" -> 3
                [] name = "w" -> IF N = 2 THEN 0 ELSE 3] = k]
    /\ scalar' = k
    /\ op' = "write_alias"
    /\ member' = name
    /\ NoResults(N)
    /\ UNCHANGED others
    /\ UNCHANGED <<dataModel, T, N, columns, columns2>>

\* v[i] = k
WriteIndex(i, k) ==
    /\ i \in Indices(N)
    /\ elements' = WriteIndexTo(elements, i, k)
    /\ lastWritten' = [lastWritten EXCEPT ![i] = k]
    /\ scalar' = k
    /\ op' = "write_index"
    /\ member' = ""
    /\ UNCHANGED others
    /\ UNCHANGED <<dataModel, T, N, columns, columns2>>
    /\ NoResults(N)

\* k / v, through operator/(U const lhs, Vector<T,N> rhs); the division
\* performed is by lhs, a zero lhs has no result
DivideScalarByVector(k) ==
    /\ k # Zero
    /\ vresult' = ScalarDivVector(T, N, k, elements)
    /\ vresult2' = ZeroVector(N)
    /\ scalar' = k
    /\ op' = "scalar_div_vector"
    /\ member' = ""
    /\ UNCHANGED others
    /\ UNCHANGED <<dataModel, T, N, elements, lastWritten, columns, columns2, mresult, mresult2>>

\* k / v, through detail::metaDivide; the divisions performed are by the
\* elements of v, a zero element has no result
DivideScalarByVectorMeta(k) ==
    /\ \A i \in Indices(N) : elements[i] # Zero
    /\ vresult' = MetaDivide(T, N, k, elements)
    /\ vresult2' = ZeroVector(N)
    /\ scalar' = k
    /\ op' = "meta_divide"
    /\ member' = ""
    /\ UNCHANGED others
    /\ UNCHANGED <<dataModel, T, N, elements, lastWritten, columns, columns2, mresult, mresult2>>

Next ==
    \/ \E n \in Sizes, k \in Elems : ConstructScalar(n, k)
    \/ \E n \in Sizes : ConstructDefault(n)
    \/ \E name \in Aliases(N), k \in Elems : WriteAlias(name, k)
    \/ \E i \in Indices(N), k \in Elems : WriteIndex(i, k)
    \/ \E k \in Elems : DivideScalarByVector(k)
    \/ \E k \in Elems : DivideScalarByVectorMeta(k)

Spec == Init /\ [][Next]_vars

---------------------------------------------------------------------------
(* The matrix object, a 2-vector and a scalar, and the operations applied   *)
(* to them                                                                  *)

Matrices(vals) == [Indices(Cols) -> [Indices(Rows) -> vals]]

\* Matrix22f{{4, 2}, {7, 6}} of MatrixInverseTest
InverseTestMatrix ==
    MatrixFromColumns(ComponentCtor(2, <<Lit(4), Lit(2)>>),
                      ComponentCtor(2, <<Lit(7), Lit(6)>>))

\* Matrix22f{{1, 2}, {3, 4}} of determinantTest
DeterminantTestMatrix ==
    MatrixFromColumns(ComponentCtor(2, <<Lit(1), Lit(2)>>),
                      ComponentCtor(2, <<Lit(3), Lit(4)>>))

\* a Matrix<T,2,2> built by its constructors; no operation applied yet
InitMatrix ==
    /\ T \in ElementTypes
    /\ N = 2
    /\ elements = ZeroVector(2)
    /\ lastWritten = elements
    /\ scalar = Zero
    /\ columns \in Matrices(MatElems) \cup {InverseTestMatrix, DeterminantTestMatrix}
    /\ columns2 = ZeroMatrix
    /\ vresult = ZeroVector(2)
    /\ vresult2 = ZeroVector(2)
    /\ mresult = ZeroMatrix
    /\ mresult2 = ZeroMatrix
    /\ op = "matrix_ctor"
    /\ member = ""
    /\ NoOthers

\* the operands of an operation on the matrix object: a vector v, a scalar k.
\* The operators are pure functions of their operands, so each is applied to
\* the matrix as constructed.
OperandsOf(name, v, k) ==
    /\ op = "matrix_ctor"
    /\ op' = name
    /\ elements' = v
    /\ lastWritten' = v
    /\ scalar' = k
    /\ UNCHANGED <<dataModel, T, N, columns, columns2, member>>

\* an operation with a vector or a matrix result
Operation(name, v, k) ==
    /\ OperandsOf(name, v, k)
    /\ UNCHANGED others

\* m * v
MatrixVectorProduct(v) ==
    /\ Operation("matrix_vector", v, Zero)
    /\ vresult' = MatVec(T, columns, v)
    /\ vresult2' = ZeroVector(2)
    /\ mresult' = ZeroMatrix
    /\ mresult2' = ZeroMatrix

\* v * m
VectorMatrixProduct(v) ==
    /\ Operation("vector_matrix", v, Zero)
    /\ vresult' = VecMat(T, v, columns)
    /\ vresult2' = ZeroVector(2)
    /\ mresult' = ZeroMatrix
    /\ mresult2' = ZeroMatrix

\* m * Matrix22::identity() and Matrix22::identity() * m
IdentityProducts ==
    /\ Operation("identity_products", ZeroVector(2), Zero)
    /\ mresult' = MatMul(T, columns, Identity)
    /\ mresult2' = MatMul(T, Identity, columns)
    /\ vresult' = ZeroVector(2)
    /\ vresult2' = ZeroVector(2)

\* inverse(m) and m * inverse(m); a singular m divides by zero and has no
\* result
InverseProduct ==
    /\ Determinant(T, columns) # Zero
    /\ Operation("inverse", ZeroVector(2), Zero)
    /\ mresult2' = Inverse(T, columns)
    /\ mresult' = MatMul(T, columns, Inverse(T, columns))
    /\ vresult' = ZeroVector(2)
    /\ vresult2' = ZeroVector(2)

\* k - m and m - k
SubtractScalarMatrix(k) ==
    /\ Operation("scalar_minus_matrix", ZeroVector(2), k)
    /\ mresult' = ScalarMinusMatrix(T, k, columns)
    /\ mresult2' = MatrixMinusScalar(T, columns, k)
    /\ vresult' = ZeroVector(2)
    /\ vresult2' = ZeroVector(2)

\* the values an uninitialised loop counter of identity() may start from:
\* 0 .. Rows; a start of Rows or more skips the loop
LoopStarts == 0 .. Rows

\* the generic Matrix<T,C,R>::identity():
\*   Matrix ret;
\*   for (int r; r < R; ++r)
\*     for (int c; c < C; ++c)
\*       ret.columns[r][c] = (r == c) ? ElementType{1} : ElementType{0};
\* ret is default-initialised, r and c are not initialised: reading them is
\* undefined behaviour.  With r starting at r0 and, in the pass for r, c
\* starting at c0[r], the elements [r][c] with r >= r0 and c >= c0[r] are
\* assigned and the others keep what ret held.
GenericIdentity(r0, c0, ret) ==
    [r \in Indices(Rows) |->
        [c \in Indices(Cols) |->
            IF r >= r0 /\ c >= c0[r]
            THEN IF r = c THEN Lit(1) ELSE Lit(0)
            ELSE ret[r][c]]]

\* 1 where identity() assigned the element, 0 where it did not
GenericIdentityAssigned(r0, c0) ==
    [r \in Indices(Rows) |->
        [c \in Indices(Cols) |-> IF r >= r0 /\ c >= c0[r] THEN One ELSE Zero]]

\* Matrix<T,2,2>::identity(): every element is given in the initialiser
IdentityFactory ==
    /\ Operation("identity", ZeroVector(2), Zero)
    /\ mresult' = Identity
    /\ mresult2' = MatrixFill(One)
    /\ vresult' = ZeroVector(2)
    /\ vresult2' = ZeroVector(2)

\* Matrix<T,C,R>::identity() of the generic Matrix, for C = R = 2
GenericIdentityFactory(r0, c0, ret) ==
    /\ Operation("identity_generic", ZeroVector(2), Zero)
    /\ mresult' = GenericIdentity(r0, c0, ret)
    /\ mresult2' = GenericIdentityAssigned(r0, c0)
    /\ vresult' = ZeroVector(2)
    /\ vresult2' = ZeroVector(2)

\* t = transpose(m), with result the default-constructed matrix it fills;
\* then v * m and t * v
TransposeMatrix(result, v) ==
    /\ Operation("transpose", v, Zero)
    /\ mresult' = Transpose(result, columns)
    /\ mresult2' = ZeroMatrix
    /\ vresult' = VecMat(T, v, columns)
    /\ vresult2' = MatVec(T, Transpose(result, columns), v)

\* determinant(m)
DeterminantOf ==
    /\ OperandsOf("determinant", ZeroVector(2), Zero)
    /\ sresult' = Determinant(T, columns)
    /\ UNCHANGED <<vresult, vresult2, mresult, mresult2, elements2, produced,
                   sresult2, bresult, bresult2>>

NextMatrix ==
    \/ \E result \in Matrices({Zero, One}), v \in [Indices(2) -> MatElems] :
          TransposeMatrix(result, v)
    \/ DeterminantOf
    \/ IdentityFactory
    \/ \E r0 \in LoopStarts, c0 \in [Indices(Rows) -> LoopStarts],
          ret \in Matrices({Zero, One}) : GenericIdentityFactory(r0, c0, ret)
    \/ \E v \in [Indices(2) -> MatElems] : MatrixVectorProduct(v)
    \/ \E v \in [Indices(2) -> MatElems] : VectorMatrixProduct(v)
    \/ IdentityProducts
    \/ InverseProduct
    \/ \E k \in MatElems : SubtractScalarMatrix(k)

SpecMatrix == InitMatrix /\ [][NextMatrix]_vars

---------------------------------------------------------------------------
(* Two matrices and a vector, composed both ways *)

\* the left matrix of the composition: any matrix of an integer type, a
\* matrix built by Matrix(T v) of a floating type
LeftMatrices(t) ==
    IF t = "int" THEN Matrices(MatElems) ELSE {MatrixFill(k) : k \in MatElems}

InitCompose ==
    /\ T \in ElementTypes
    /\ N = 2
    /\ elements = ZeroVector(2)
    /\ lastWritten = elements
    /\ scalar = Zero
    /\ columns \in LeftMatrices(T)
    /\ columns2 \in Matrices(Operands(T))
    /\ vresult = ZeroVector(2)
    /\ vresult2 = ZeroVector(2)
    /\ mresult = ZeroMatrix
    /\ mresult2 = ZeroMatrix
    /\ op = "matrix_ctor"
    /\ member = ""
    /\ NoOthers

\* (a * b) * v and a * (b * v)
ComposeProducts(v) ==
    /\ Operation("compose", v, Zero)
    /\ mresult' = MatMul(T, columns, columns2)
    /\ vresult' = MatVec(T, MatMul(T, columns, columns2), v)
    /\ vresult2' = MatVec(T, columns, MatVec(T, columns2, v))
    /\ mresult2' = ZeroMatrix

\* a * b
MatrixMatrixProduct ==
    /\ Operation("matrix_matrix", ZeroVector(2), Zero)
    /\ mresult' = MatMul(T, columns, columns2)
    /\ mresult2' = ZeroMatrix
    /\ vresult' = ZeroVector(2)
    /\ vresult2' = ZeroVector(2)

\* determinant(a * b) and determinant(a) * determinant(b)
DeterminantOfProduct ==
    /\ OperandsOf("determinant_product", ZeroVector(2), Zero)
    /\ mresult' = MatMul(T, columns, columns2)
    /\ sresult' = Determinant(T, MatMul(T, columns, columns2))
    /\ sresult2' = Mul(T, Determinant(T, columns), Determinant(T, columns2))
    /\ UNCHANGED <<vresult, vresult2, mresult2, elements2, produced,
                   bresult, bresult2>>

NextCompose ==
    \/ DeterminantOfProduct
    \/ \E v \in [Indices(2) -> Operands(T)] : ComposeProducts(v)
    \/ MatrixMatrixProduct

SpecCompose == InitCompose /\ [][NextCompose]_vars

-----
(* Claims *)

\* C1 (as claimed): for every size N in {2,3,4} and every value s, the
\* single-scalar constructor Vector<T,N>(s) produces a vector whose every
\* component equals s.
C1_ScalarCtorFillsEveryComponent ==
    op = "scalar_ctor" => \A i \in Indices(N) : ReadIndex(elements, i) = scalar

\* the component a named member stands for: x/r (and w of a 2-vector) are
\* component 0, y/g/h component 1, z/b component 2, w/a of a 4-vector
\* component 3
ComponentOf(n, name) ==
    CASE name \in {"x", "r"} -> 0
      [] name \in {"y", "g", "h"} -> 1
      [] name \in {"z", "b"} -> 2
      [] name = "a" -> 3
      [] name = "w" -> IF n = 2 THEN 0 ELSE 3

\* C2: after any sequence of component writes through any alias (index,
\* x/y/z/w, r/g/b/a, w/h on 2-vectors), reading component i through every
\* alias of component i returns the value most recently written to it.
C2_AliasConsistency ==
    /\ \A i \in Indices(N) : ReadIndex(elements, i) = lastWritten[i]
    /\ \A name \in Aliases(N) :
          ReadAlias(N, elements, name) = lastWritten[ComponentOf(N, name)]

\* C2 witness: a 2-vector was just written through h, and its w and h views
\* now differ, each agreeing with x/r and y/g respectively.
C2_Witness ==
    /\ op = "write_alias"
    /\ N = 2
    /\ member = "h"
    /\ ReadAlias(2, elements, "h") = scalar
    /\ ReadAlias(2, elements, "g") = scalar
    /\ ReadAlias(2, elements, "w") # scalar

\* C3 (as claimed): for all 2x2 matrices A, B and every 2-vector v of the same
\* element type, (A*B)*v == A*(B*v).
C3_CompositionOrderEveryType ==
    op = "compose" => VecEq(2, vresult, vresult2)

\* C3 (amended): for all 2x2 matrices A, B and every 2-vector v of an integer
\* element type, (A*B)*v == A*(B*v).
C3_CompositionOrder ==
    (op = "compose" /\ T = "int") => VecEq(2, vresult, vresult2)

\* C3 witness: the law was applied to integer matrices that do not commute,
\* with a non-zero result that the reversed product would not give.
C3_Witness ==
    /\ op = "compose"
    /\ T = "int"
    /\ MatMul(T, columns, columns2) # MatMul(T, columns2, columns)
    /\ MatVec(T, mresult, elements) # MatVec(T, MatMul(T, columns2, columns), elements)
    /\ vresult # ZeroVector(2)

\* C4: for every 2x2 matrix M, M * identity() == M and identity() * M == M.
C4_IdentityLaw ==
    op = "identity_products" => MatEq(mresult, columns) /\ MatEq(mresult2, columns)

\* C4 witness: the products were taken of a matrix with four non-zero
\* elements that is not symmetric.
C4_Witness ==
    /\ op = "identity_products"
    /\ \A c \in Indices(Cols), r \in Indices(Rows) : columns[c][r] # Zero
    /\ columns[0][1] # columns[1][0]

\* the tolerance of a floating comparison: four units in the last place of 1
Tolerance == Rat(4, MinSignificand)

\* a == b for an integer element type, a == b within Tolerance in every
\* element for a floating one
MatNear(t, a, b) ==
    IF t = "int" THEN MatEq(a, b)
    ELSE \A c \in Indices(Cols), r \in Indices(Rows) : Within(a[c][r], b[c][r], Tolerance)

DividesExactly(t, mat) ==
    \A c \in Indices(Cols), r \in Indices(Rows) :
        mat[c][r].n % Abs(Determinant(t, mat).n) = 0

Tenths(k) == Round("float", Rat(k, 10))

\* C6 (as claimed): inverse of the matrix with column 0 = {4,2} and column 1 =
\* {7,6} has column 0 = {0.6,-0.7} and column 1 = {-0.2,0.4}.
C6_InverseExampleAsClaimed ==
    (op = "inverse" /\ T = "float" /\ columns = InverseTestMatrix) =>
        /\ mresult2[0][0] = Tenths(6)
        /\ mresult2[0][1] = Tenths(-7)
        /\ mresult2[1][0] = Tenths(-2)
        /\ mresult2[1][1] = Tenths(4)

\* C6 (amended): inverse of the matrix with column 0 = {4,2} and column 1 =
\* {7,6} has column 0 = {0.6,-0.2} and column 1 = {-0.7,0.4}: result[0][0] =
\* 0.6, result[0][1] = -0.2, result[1][0] = -0.7, result[1][1] = 0.4.
C6_InverseExample ==
    (op = "inverse" /\ T = "float" /\ columns = InverseTestMatrix) =>
        /\ mresult2[0][0] = Tenths(6)
        /\ mresult2[0][1] = Tenths(-2)
        /\ mresult2[1][0] = Tenths(-7)
        /\ mresult2[1][1] = Tenths(4)

\* C6 witness: inverse was applied to the floating matrix {{4,2},{7,6}}, whose
\* determinant is 10.
C6_Witness ==
    /\ op = "inverse"
    /\ T = "float"
    /\ columns = InverseTestMatrix
    /\ Determinant(T, columns) = Lit(10)
    /\ mresult2 # ZeroMatrix

\* C7: M * v is the column vector whose component r is
\* M[0][r]*v[0] + M[1][r]*v[1], and v * M is the row vector whose component c
\* is v[0]*M[c][0] + v[1]*M[c][1].
C7_MatrixVectorProducts ==
    /\ op = "matrix_vector" =>
          \A r \in Indices(Rows) :
              vresult[r] = Add(T, Mul(T, columns[0][r], elements[0]),
                               Mul(T, columns[1][r], elements[1]))
    /\ op = "vector_matrix" =>
          \A c \in Indices(Cols) :
              vresult[c] = Add(T, Mul(T, elements[0], columns[c][0]),
                               Mul(T, elements[1], columns[c][1]))

\* C7 witness: M * v was taken with a non-symmetric M and a v for which the
\* M * v and v * M differ.
C7_Witness ==
    /\ op = "matrix_vector"
    /\ columns[0][1] # columns[1][0]
    /\ vresult # VecMat(T, elements, columns)
    /\ vresult # ZeroVector(2)

\* C8 (as claimed): for every scalar s and every vector v with no zero
\* component, s / v is the vector whose component i equals s divided by v[i].
C8_ScalarOverVector ==
    (op \in {"scalar_div_vector", "meta_divide"}
        /\ \A i \in Indices(N) : elements[i] # Zero) =>
        \A i \in Indices(N) : vresult[i] = Div(T, scalar, elements[i])

\* C9 (as claimed): for every scalar s and every matrix M, s - M is the matrix
\* whose element at every [col][row] equals s minus M[col][row].
C9_ScalarMinusMatrix ==
    op = "scalar_minus_matrix" =>
        \A c \in Indices(Cols), r \in Indices(Rows) :
            mresult[c][r] = Sub(T, scalar, columns[c][r])

\* C10 (as claimed): a default-constructed Vector<T,N> has every element equal
\* to zero.
C10_DefaultConstructedIsZero ==
    op = "default_ctor" => \A i \in Indices(N) : ReadIndex(elements, i) = Zero

---------------------------------------------------------------------------
(* Vectors built from the vector object: truncating and widening           *)
(* constructors, swizzles                                                  *)

\* template <typename T, std::size_t N> class Vector: the type of the size
\* parameter of the class template
SizeParameter == "std::size_t"

\* the truncating constructor template declared by Vector<T,n>,
\*   template <P VN, typename = std::enable_if_t<(VN > above)>>
\*   explicit constexpr Vector(Vector<T, VN> const &v)
\* with P the declared type of VN
TruncatingCtor(n) ==
    CASE n = 2 -> [parameter |-> "int", above |-> 2]
      [] n = 3 -> [parameter |-> "std::size_t", above |-> 2]
      [] n = 4 -> [parameter |-> "std::size_t", above |-> 4]

\* template argument deduction of VN from an argument of type Vector<T,m>:
\* it fails when the declared type of VN is not the type of the class
\* template's size parameter, and the constructor is removed from the
\* overload set when the enable_if condition is false
Deduced(n, m) ==
    /\ TruncatingCtor(n).parameter = SizeParameter
    /\ m > TruncatingCtor(n).above

\* an object returned or constructed by value has storage of its own; a
\* reference would designate the storage of the object it was taken from
ByReference(n, e) == [own |-> FALSE, size |-> n, elements |-> e]

ByValue(n, e) == [own |-> TRUE, size |-> n, elements |-> e]

\* Vector<T,n>(Vector<T,VN> const &v) : elements{v.elements[0], ...}
Truncated(n, e) == ByValue(n, [i \in Indices(n) |-> e[i]])

WidenedLastRepeated(n, e, last) ==
    ByValue(n + 1, [i \in Indices(n + 1) |-> IF i < n THEN ReadIndex(e, i)
                                              ELSE ReadIndex(e, n - 1)])

\* Vector<T,n+1>(Vector<T,n> const &v, T const last) : elements{v[0], ..., last}
Widened(n, e, last) ==
    ByValue(n + 1, [i \in Indices(n + 1) |-> IF i < n THEN ReadIndex(e, i) ELSE last])

\* the swizzles of Vector<T,3> and Vector<T,4>
Swizzles(n) == IF n = 2 THEN {} ELSE {"xy", "xyz", "rg", "rgb"}

\* xy() { return Vector2<T>{x, y}; }   xyz() { return Vector3<T>{x, y, z}; }
\* rg() { return xy(); }               rgb() { return xyz(); }
Swizzle(n, e, name) ==
    IF name \in {"xy", "rg"}
    THEN ByValue(2, ComponentCtor(2, <<ReadAlias(n, e, "x"), ReadAlias(n, e, "y")>>))
    ELSE ByValue(3, ComponentCtor(3, <<ReadAlias(n, e, "x"), ReadAlias(n, e, "y"),
                                       ReadAlias(n, e, "z")>>))

\* the elements read through a vector built from the object whose storage
\* is src
ValueOf(p, src) ==
    IF p.own THEN p.elements
    ELSE [i \in Indices(p.size) |-> IF i \in DOMAIN src THEN src[i] ELSE p.elements[i]]

VectorName(n) == CASE n = 2 -> "Vector2" [] n = 3 -> "Vector3" [] n = 4 -> "Vector4"

ConversionOps == {"truncating_ctor", "widening_ctor", "swizzle"}

\* the registers a conversion or a later write leaves alone
Registers == <<scalar, columns, columns2, vresult, vresult2, mresult, mresult2,
               elements2, sresult, sresult2, bresult, bresult2>>

\* Vector<T,n>(v) for a v of more than n components
ConstructTruncated(n) ==
    /\ op = "component_ctor"
    /\ n < N
    /\ IF Deduced(n, N)
       THEN op' = "truncating_ctor" /\ produced' = Truncated(n, elements)
       ELSE op' = "no_matching_constructor" /\ produced' = NoVector
    /\ member' = VectorName(n)
    /\ UNCHANGED <<dataModel, T, N, elements, lastWritten>>
    /\ UNCHANGED Registers

\* Vector<T,N+1>(v, k)
ConstructWidened(k) ==
    /\ op = "component_ctor"
    /\ N < 4
    /\ op' = "widening_ctor"
    /\ produced' = Widened(N, elements, k)
    /\ member' = VectorName(N + 1)
    /\ UNCHANGED <<dataModel, T, N, elements, lastWritten>>
    /\ UNCHANGED Registers

\* v.xy(), v.xyz(), v.rg(), v.rgb()
TakeSwizzle(name) ==
    /\ op = "component_ctor"
    /\ name \in Swizzles(N)
    /\ op' = "swizzle"
    /\ produced' = Swizzle(N, elements, name)
    /\ member' = name
    /\ UNCHANGED <<dataModel, T, N, elements, lastWritten>>
    /\ UNCHANGED Registers

\* Vector3<T>(v.xy(), v.z) == v for a 3-vector v,
\* Vector4<T>(v.xyz(), v.w) == v for a 4-vector v
RebuildFromSwizzle ==
    /\ op = "component_ctor"
    /\ N > 2
    /\ op' = "rebuild"
    /\ member' = IF N = 3 THEN "xy" ELSE "xyz"
    /\ produced' = Widened(N - 1, Swizzle(N, elements, member').elements,
                           ReadAlias(N, elements, IF N = 3 THEN "z" ELSE "w"))
    /\ bresult' = VecEq(N, produced'.elements, elements)
    /\ UNCHANGED <<dataModel, T, N, elements, lastWritten, scalar, columns, columns2,
                   vresult, vresult2, mresult, mresult2, elements2, sresult,
                   sresult2, bresult2>>

\* v[i] = k, after a vector was built from v
WriteSource(i, k) ==
    /\ op \in ConversionOps
    /\ i \in Indices(N)
    /\ op' = "write_source"
    /\ elements' = WriteIndexTo(elements, i, k)
    /\ lastWritten' = [lastWritten EXCEPT ![i] = k]
    /\ UNCHANGED <<dataModel, T, N, member, produced>>
    /\ UNCHANGED Registers

\* p[i] = k, for the vector p built from v: the write goes to the storage p
\* designates
WriteProduced(i, k) ==
    /\ op \in ConversionOps
    /\ i \in Indices(produced.size)
    /\ op' = "write_produced"
    /\ IF produced.own \/ i \notin DOMAIN elements
       THEN /\ produced' = [produced EXCEPT !.elements = WriteIndexTo(@, i, k)]
            /\ UNCHANGED <<elements, lastWritten>>
       ELSE /\ elements' = WriteIndexTo(elements, i, k)
            /\ lastWritten' = [lastWritten EXCEPT ![i] = k]
            /\ UNCHANGED produced
    /\ UNCHANGED <<dataModel, T, N, member>>
    /\ UNCHANGED Registers

\* the axis factories of Vector<T,2>, Vector<T,3>, Vector<T,4>
Axes(n) ==
    CASE n = 2 -> {"x", "y"}
      [] n = 3 -> {"x", "y", "z"}
      [] n = 4 -> {"x", "y", "z", "w"}

\* Vector<T,n>::xAxis() { return {T(1), T(0), ...}; } and yAxis, zAxis, wAxis
AxisVector(n, axis) ==
    CASE n = 2 /\ axis = "x" -> ComponentCtor(2, <<Lit(1), Lit(0)>>)
      [] n = 2 /\ axis = "y" -> ComponentCtor(2, <<Lit(0), Lit(1)>>)
      [] n = 3 /\ axis = "x" -> ComponentCtor(3, <<Lit(1), Lit(0), Lit(0)>>)
      [] n = 3 /\ axis = "y" -> ComponentCtor(3, <<Lit(0), Lit(1), Lit(0)>>)
      [] n = 3 /\ axis = "z" -> ComponentCtor(3, <<Lit(0), Lit(0), Lit(1)>>)
      [] n = 4 /\ axis = "x" -> ComponentCtor(4, <<Lit(1), Lit(0), Lit(0), Lit(0)>>)
      [] n = 4 /\ axis = "y" -> ComponentCtor(4, <<Lit(0), Lit(1), Lit(0), Lit(0)>>)
      [] n = 4 /\ axis = "z" -> ComponentCtor(4, <<Lit(0), Lit(0), Lit(1), Lit(0)>>)
      [] n = 4 /\ axis = "w" -> ComponentCtor(4, <<Lit(0), Lit(0), Lit(0), Lit(1)>>)

\* the generic Vector<T,N> declares UnitX, UnitY, UnitZ and UnitW for every
\* N; none of them is constrained on N
UnitAxes(n) == {"x", "y", "z", "w"}

\* the index UnitX, UnitY, UnitZ, UnitW assign: v[0], v[1], v[2], v[3]
UnitIndex(axis) ==
    CASE axis = "x" -> 0 [] axis = "y" -> 1 [] axis = "z" -> 2 [] axis = "w" -> 3

\* Vector<T,N>::Zero() { return Vector<T, N>{T(0.0)}; }
GenericZero(n) == [i \in Indices(n) |-> Lit(0)]

\* Unit?() { Vector<T,N> v = Zero(); v[i] = T(1); return v; }
\* operator[] does no bounds checking: for i >= N the write is outside the
\* array, the behaviour is undefined and the vector returned is any vector
UnitOutcomes(n, axis) ==
    IF UnitIndex(axis) \in Indices(n)
    THEN {WriteIndexTo(GenericZero(n), UnitIndex(axis), Lit(1))}
    ELSE [Indices(n) -> {Lit(0), Lit(1)}]

\* the writes Unit?() makes: every index of Zero(), then v[i]
UnitWrites(n, axis) ==
    [i \in Indices(n) \cup {UnitIndex(axis)} |->
        IF i = UnitIndex(axis) THEN Lit(1) ELSE Lit(0)]

\* Vector<T,N>::xAxis(), yAxis(), zAxis(), wAxis(); lastWritten holds the
\* writes made to the vector that is built
MakeAxis(axis) ==
    /\ op = "component_ctor"
    /\ axis \in Axes(N)
    /\ op' = "axis_factory"
    /\ produced' = ByValue(N, AxisVector(N, axis))
    /\ lastWritten' = AxisVector(N, axis)
    /\ member' = axis
    /\ UNCHANGED <<dataModel, T, N, elements>>
    /\ UNCHANGED Registers

\* Vector<T,N>::UnitX(), UnitY(), UnitZ(), UnitW() of the generic Vector
MakeUnit(axis) ==
    /\ op = "component_ctor"
    /\ axis \in UnitAxes(N)
    /\ op' = "unit_factory"
    /\ \E e \in UnitOutcomes(N, axis) : produced' = ByValue(N, e)
    /\ lastWritten' = UnitWrites(N, axis)
    /\ member' = axis
    /\ UNCHANGED <<dataModel, T, N, elements>>
    /\ UNCHANGED Registers

NextConvert ==
    \/ RebuildFromSwizzle
    \/ \E axis \in Axes(N) : MakeAxis(axis)
    \/ \E axis \in UnitAxes(N) : MakeUnit(axis)
    \/ \E n \in Sizes : ConstructTruncated(n)
    \/ \E k \in Elems : ConstructWidened(k)
    \/ \E name \in Swizzles(N) : TakeSwizzle(name)
    \/ \E i \in Indices(N), k \in Elems : WriteSource(i, k)
    \/ \E i \in Indices(produced.size), k \in Elems : WriteProduced(i, k)

SpecConvert == Init /\ [][NextConvert]_vars

---------------------------------------------------------------------------
(* Claims about conversions *)

\* C11: for every pair of sizes N < M <= 4, the explicit truncating
\* constructor Vector<T,N>(Vector<T,M>) is available, and component i of the
\* vector it builds equals component i of its argument for every i < N.
C11_TruncatingCtor ==
    op \in {"truncating_ctor", "no_matching_constructor"} =>
        /\ op = "truncating_ctor"
        /\ \A i \in Indices(produced.size) :
              ReadIndex(produced.elements, i) = ReadIndex(elements, i)
        /\ VectorName(produced.size) = member

---------------------------------------------------------------------------
(* Two vectors of the same size: comparison, dot and cross product *)

\* the elements of the first vector are the literals -1 .. MaxPairElem, those
\* of the second 0 .. MaxPairElem
MaxPairElem == 1

\* the elements of the first of two 3-vectors whose cross product is taken are
\* the literals -1 .. MaxCrossElem, those of the second -1 .. MaxPairElem
MaxCrossElem == 3

PairElems(t) == {Literal(t, k) : k \in -1 .. MaxPairElem}
PairElems2(t) == {Literal(t, k) : k \in 0 .. MaxPairElem}
CrossElems(t) == {Literal(t, k) : k \in -1 .. MaxCrossElem}

\* operator!=(Vector<T,N>, Vector<T,N>) { return !(lhs == rhs); }
VecNotEq(n, a, b) == ~VecEq(n, a, b)

\* BasePoint: operator==(BasePoint const &rhs, BasePoint const &lhs)
\*   { return rhs.data == rhs.data; }
\* std::array compares element-wise; both sides are the first argument
BasePointEq(n, rhs, lhs) == \A i \in Indices(n) : rhs[i] = rhs[i]

\* BasePoint: operator!= { return !(rhs.data == rhs.data); }
BasePointNotEq(n, rhs, lhs) == ~(\A i \in Indices(n) : rhs[i] = rhs[i])

\* the declared return type of BasePoint's operator== and operator!=
BasePointCompareReturns == "BasePoint"

\* the constructors of BasePoint that take one argument are explicit, so a
\* bool converts only to a bool return type
ReturnConverts(type) == type = "bool"

\* detail::inner_product(first1, last1, first2, init):
\*   for (; first1 != last1; ++first1, ++first2) init = init + (*first1 * *first2);
\* with the iterators at position i of [0, last)
RECURSIVE InnerProduct(_, _, _, _, _, _)
InnerProduct(t, a, b, i, last, init) ==
    IF i = last THEN init
    ELSE InnerProduct(t, a, b, i + 1, last, Add(t, init, Mul(t, a[i], b[i])))

\* dot(lhs, rhs) { return detail::inner_product(begin(lhs), end(lhs), begin(rhs), T(0)); }
Dot(t, n, lhs, rhs) == InnerProduct(t, lhs, rhs, 0, n, Zero)

\* lengthSquared(vec) { return dot(vec, vec); }
LengthSquared(t, n, vec) == Dot(t, n, vec, vec)

\* std::numeric_limits<T>::epsilon(): the gap between 1 and the next value
\* of a floating T, 0 for an integer T
Epsilon(t) == IF t = "float" THEN Rat(1, MinSignificand) ELSE Zero

\* isZeroLength(vec):
\*   T epsilon = std::numeric_limits<T>::epsilon();
\*   return abs(lengthSquared(vec)) < (epsilon * epsilon);
IsZeroLength(t, n, vec) ==
    ~LessEq(Mul(t, Epsilon(t), Epsilon(t)), AbsValue(LengthSquared(t, n, vec)))

\* BasePoint-based Vector:
\*   dot(lhs, rhs) { return std::inner_product(lhs.begin(), rhs.begin(), rhs.begin(), T{0}); }
\* The first range ends at rhs.begin().  With both arguments the same object
\* the range is empty.  With rhs stored directly behind lhs it is the whole of
\* lhs.  Any other placement of the two objects leaves the range outside one
\* array: the behaviour is undefined, and the call returns some value of the
\* element type or does not return.
DotBasePointOutcomes(t, n, lhs, rhs, same) ==
    IF same THEN {InnerProduct(t, lhs, lhs, 0, 0, Zero)}
    ELSE {InnerProduct(t, lhs, rhs, 0, n, Zero)} \cup PairElems(t)

\* cross(Vector<T,3> const &lhs, Vector<U,3> const &rhs)
CrossOneSignFlipped(t, lhs, rhs) ==
    ComponentCtor(3,
        <<Sub(t, Mul(t, lhs[1], rhs[2]), Mul(t, lhs[2], rhs[1])),
          Sub(t, Mul(t, lhs[0], rhs[2]), Mul(t, lhs[2], rhs[0])),
          Sub(t, Mul(t, lhs[0], rhs[1]), Mul(t, lhs[1], rhs[0]))>>)

Cross(t, lhs, rhs) ==
    ComponentCtor(3,
        <<Sub(t, Mul(t, lhs[1], rhs[2]), Mul(t, lhs[2], rhs[1])),
          Sub(t, Mul(t, lhs[2], rhs[0]), Mul(t, lhs[0], rhs[2])),
          Sub(t, Mul(t, lhs[0], rhs[1]), Mul(t, lhs[1], rhs[0]))>>)

\* BasePoint-based Vector: cross(Vec3<T> const rhs, Vec3<T> const &lhs); the
\* first parameter is the one named rhs
CrossBasePoint(t, rhs, lhs) ==
    ComponentCtor(3,
        <<Sub(t, Mul(t, ReadAlias(3, lhs, "y"), ReadAlias(3, rhs, "z")),
                 Mul(t, ReadAlias(3, lhs, "z"), ReadAlias(3, rhs, "y"))),
          Sub(t, Mul(t, ReadAlias(3, lhs, "z"), ReadAlias(3, rhs, "x")),
                 Mul(t, ReadAlias(3, lhs, "x"), ReadAlias(3, rhs, "z"))),
          Sub(t, Mul(t, ReadAlias(3, lhs, "x"), ReadAlias(3, rhs, "y")),
                 Mul(t, ReadAlias(3, lhs, "y"), ReadAlias(3, rhs, "x")))>>)

\* two vectors a (elements) and b (elements2) of size n built by the
\* per-component constructor from the values as and bs
InitVectors(n, as, bs) ==
    /\ N = n
    /\ elements \in [Indices(n) -> as]
    /\ elements2 \in [Indices(n) -> bs]
    /\ lastWritten = elements
    /\ scalar = Zero
    /\ columns = ZeroMatrix
    /\ columns2 = ZeroMatrix
    /\ vresult = ZeroVector(N)
    /\ vresult2 = ZeroVector(N)
    /\ mresult = ZeroMatrix
    /\ mresult2 = ZeroMatrix
    /\ op = "component_ctor"
    /\ member = ""
    /\ produced = NoVector
    /\ sresult = Zero
    /\ sresult2 = Zero
    /\ bresult = FALSE
    /\ bresult2 = FALSE
    /\ dataModel = "LP64"

InitPair ==
    /\ T \in ElementTypes
    /\ \E n \in Sizes : InitVectors(n, PairElems(T), PairElems2(T))

InitCross ==
    /\ T \in ElementTypes
    /\ InitVectors(3, CrossElems(T), PairElems(T))

\* an operation on the two vectors as constructed; the operators are pure
\* functions of their operands
PairOperation(name) ==
    /\ op = "component_ctor"
    /\ op' = name
    /\ UNCHANGED <<dataModel, T, N, elements, elements2, lastWritten, scalar, columns,
                   columns2, mresult, mresult2, member, produced>>

\* a == b and a != b
CompareVectors ==
    /\ PairOperation("vector_compare")
    /\ bresult' = VecEq(N, elements, elements2)
    /\ bresult2' = VecNotEq(N, elements, elements2)
    /\ UNCHANGED <<vresult, vresult2, sresult, sresult2>>

\* a == b and a != b through the operators of BasePoint
CompareBasePoints ==
    /\ PairOperation(IF ReturnConverts(BasePointCompareReturns)
                     THEN "basepoint_compare" ELSE "basepoint_compare_ill_formed")
    /\ bresult' = BasePointEq(N, elements, elements2)
    /\ bresult2' = BasePointNotEq(N, elements, elements2)
    /\ UNCHANGED <<vresult, vresult2, sresult, sresult2>>

\* dot(a, b)
DotProduct ==
    /\ PairOperation("dot")
    /\ sresult' = Dot(T, N, elements, elements2)
    /\ UNCHANGED <<vresult, vresult2, sresult2, bresult, bresult2>>

\* dot(a, b) and dot(a, a) of the BasePoint-based Vector
DotProductBasePoint(same) ==
    /\ PairOperation(IF same THEN "dot_basepoint_same" ELSE "dot_basepoint")
    /\ sresult' \in DotBasePointOutcomes(T, N, elements, elements2, same)
    /\ UNCHANGED <<vresult, vresult2, sresult2, bresult, bresult2>>

\* c = cross(a, b), then dot(c, a) and dot(c, b)
CrossProduct ==
    /\ N = 3
    /\ PairOperation("cross")
    /\ vresult' = Cross(T, elements, elements2)
    /\ sresult' = Dot(T, 3, Cross(T, elements, elements2), elements)
    /\ sresult2' = Dot(T, 3, Cross(T, elements, elements2), elements2)
    /\ UNCHANGED <<vresult2, bresult, bresult2>>

\* cross(a, b) of the BasePoint-based Vector
CrossProductBasePoint ==
    /\ N = 3
    /\ PairOperation("cross_basepoint")
    /\ vresult' = CrossBasePoint(T, elements, elements2)
    /\ UNCHANGED <<vresult2, sresult, sresult2, bresult, bresult2>>

\* Vector<T,2>::operator++(int) { return {this->data[0]++, this->data[1]++}; }
\* the vector returned and the elements left behind
PostIncrement(t, n, v) ==
    [returned |-> [i \in Indices(n) |-> v[i]],
     after |-> [i \in Indices(n) |-> Add(t, v[i], One)]]

\* old = a; a++ with the operator of detail/Vector2.hh
PostIncrementVector ==
    /\ op = "component_ctor"
    /\ N = 2
    /\ op' = "post_increment"
    /\ elements2' = elements
    /\ vresult' = PostIncrement(T, N, elements).returned
    /\ elements' = PostIncrement(T, N, elements).after
    /\ lastWritten' = elements'
    /\ UNCHANGED <<dataModel, T, N, scalar, columns, columns2, mresult, mresult2,
                   member, produced, vresult2, sresult, sresult2, bresult, bresult2>>

\* the unary operators that Vector3.hh, Vector4.hh and detail/Vector.hh
\* declare for a Vector
VectorUnaryOperators == {"-", "++", "--"}

\* old = a; a++ with the operator of Vector3.hh and Vector4.hh,
\*   operator++(int) -> Vector & { Vector res = Vector(*this)++ * this; return *res; }
\* whose body applies unary * to a Vector; nothing is computed
PostIncrementSpecialised ==
    /\ op = "component_ctor"
    /\ op' = IF "*" \in VectorUnaryOperators
             THEN "post_increment" ELSE "post_increment_ill_formed"
    /\ elements2' = elements
    /\ UNCHANGED <<dataModel, T, N, elements, lastWritten, scalar, columns, columns2,
                   mresult, mresult2, member, produced, vresult, vresult2,
                   sresult, sresult2, bresult, bresult2>>

\* isZeroLength(a)
ZeroLengthCheck ==
    /\ PairOperation("is_zero_length")
    /\ bresult' = IsZeroLength(T, N, elements)
    /\ sresult' = LengthSquared(T, N, elements)
    /\ UNCHANGED <<vresult, vresult2, sresult2, bresult2>>

NextPair ==
    \/ PostIncrementVector
    \/ PostIncrementSpecialised
    \/ ZeroLengthCheck
    \/ CompareVectors
    \/ CompareBasePoints
    \/ DotProduct
    \/ \E same \in BOOLEAN : DotProductBasePoint(same)

SpecPair == InitPair /\ [][NextPair]_vars

NextCross ==
    \/ CrossProduct
    \/ CrossProductBasePoint

SpecCross == InitCross /\ [][NextCross]_vars

---------------------------------------------------------------------------
(* Claims about two vectors *)

\* C12: for all vectors a and b of the same size, a == b is true exactly when
\* a[i] == b[i] for every i in 0..N-1, and a != b is true exactly when a == b
\* is false; this for the operators of Vector and those of BasePoint, which
\* must yield a bool at all.
C12_EqualityElementwise ==
    op \in {"vector_compare", "basepoint_compare", "basepoint_compare_ill_formed"} =>
        /\ op # "basepoint_compare_ill_formed"
        /\ bresult = (\A i \in Indices(N) : ReadIndex(elements, i) = ReadIndex(elements2, i))
        /\ bresult2 = ~bresult

\* C12, the operators of Vector alone: they compare element-wise
C12_VectorOperatorsElementwise ==
    op = "vector_compare" =>
        /\ bresult = (\A i \in Indices(N) : ReadIndex(elements, i) = ReadIndex(elements2, i))
        /\ bresult2 = ~bresult

\* a[0]*b[0] + a[1]*b[1] + ... + a[n-1]*b[n-1] in element type t, written out
SumOfProducts(t, n, a, b) ==
    CASE n = 2 -> Add(t, Mul(t, a[0], b[0]), Mul(t, a[1], b[1]))
      [] n = 3 -> Add(t, Add(t, Mul(t, a[0], b[0]), Mul(t, a[1], b[1])),
                         Mul(t, a[2], b[2]))
      [] n = 4 -> Add(t, Add(t, Add(t, Mul(t, a[0], b[0]), Mul(t, a[1], b[1])),
                                Mul(t, a[2], b[2])),
                         Mul(t, a[3], b[3]))

\* C13: for all vectors a and b of size N, dot(a, b) equals the sum over every
\* i in 0..N-1 of a[i]*b[i], each pair of components contributing exactly
\* once; this for dot of Vector and for dot of the BasePoint-based Vector,
\* called with two objects or with the same object twice.
C13_DotIsSumOfProducts ==
    /\ op \in {"dot", "dot_basepoint"} =>
          sresult = SumOfProducts(T, N, elements, elements2)
    /\ op = "dot_basepoint_same" =>
          sresult = SumOfProducts(T, N, elements, elements)

\* C13, dot of Vector alone: it is the sum of the products
C13_VectorDotIsSumOfProducts ==
    op = "dot" => sresult = SumOfProducts(T, N, elements, elements2)

\* {a.y*b.z - a.z*b.y, a.z*b.x - a.x*b.z, a.x*b.y - a.y*b.x} in element type t
CrossFormula(t, a, b) ==
    LET ax == ReadAlias(3, a, "x")
        ay == ReadAlias(3, a, "y")
        az == ReadAlias(3, a, "z")
        bx == ReadAlias(3, b, "x")
        by == ReadAlias(3, b, "y")
        bz == ReadAlias(3, b, "z")
    IN  <<Sub(t, Mul(t, ay, bz), Mul(t, az, by)),
          Sub(t, Mul(t, az, bx), Mul(t, ax, bz)),
          Sub(t, Mul(t, ax, by), Mul(t, ay, bx))>>

\* C14: for all 3-vectors a and b, cross(a, b), with a the first argument and
\* b the second, equals {a.y*b.z - a.z*b.y, a.z*b.x - a.x*b.z,
\* a.x*b.y - a.y*b.x}; this for cross of Vector and for cross of the
\* BasePoint-based Vector.
C14_CrossProduct ==
    op \in {"cross", "cross_basepoint"} =>
        \A i \in Indices(3) :
            ReadIndex(vresult, i) = CrossFormula(T, elements, elements2)[i + 1]

\* C14, cross of Vector alone: it is the formula
C14_VectorCrossProduct ==
    op = "cross" =>
        \A i \in Indices(3) :
            ReadIndex(vresult, i) = CrossFormula(T, elements, elements2)[i + 1]

\* |a[0]| + |a[1]| + |a[2]|, rounded as a floating value
Norm1(a) ==
    Add("float", Add("float", AbsValue(a[0]), AbsValue(a[1])), AbsValue(a[2]))

\* x is zero up to the rounding of the products it was summed from: |x| is at
\* most Tolerance times the product of the 1-norms of the factors
NearZero(x, a, b, c) ==
    LessEq(AbsValue(x),
           Mul("float", Tolerance,
               Mul("float", Norm1(a), Mul("float", Norm1(b), Norm1(c)))))

\* C15: for all 3-vectors a and b, dot(cross(a, b), a) and
\* dot(cross(a, b), b) are both zero: exactly for an integer element type,
\* up to rounding (relative to the magnitudes of a and b) for a floating
\* element type.
C15_CrossOrthogonal ==
    op = "cross" =>
        IF T = "int"
        THEN sresult = Zero /\ sresult2 = Zero
        ELSE /\ NearZero(sresult, elements, elements2, elements)
             /\ NearZero(sresult2, elements, elements2, elements2)

\* a cross product of a floating type that is not the zero vector and whose
\* dot product with a is not exactly zero
C15_Witness ==
    /\ op = "cross"
    /\ T = "float"
    /\ vresult # ZeroVector(3)
    /\ sresult # Zero

---------------------------------------------------------------------------
(* A vector scaled by a scalar and divided by it again *)

\* the element types of the vectors that are scaled: besides a wide integer
\* and a floating type, the narrowest unsigned type accepted
ScaleTypes == ElementTypes \cup {"uint8"}

\* elements of the vector that is scaled: the literals 3 * k, k in
\* -1 .. MaxElem + 1; for std::uint8_t the values 0 .. MaxElem and the upper
\* half of its range
ScaleElems(t) ==
    IF t = "uint8"
    THEN {Lit(k) : k \in 0 .. MaxElem} \cup
         {Lit(Uint8Modulus \div 2 + k) : k \in 0 .. MaxElem}
    ELSE {Literal(t, 3 * k) : k \in -1 .. MaxElem + 1}

\* the nonzero scalars: the literals 1 .. MaxOperand + 1
ScaleOperands(t) == {Literal(t, k) : k \in 1 .. MaxOperand + 1}

\* Vector::operator*=(U const v): for (auto &&r : elements) r *= static_cast<T>(v);
VecMulAssignAllButLast(t, n, e, v) ==
    [i \in Indices(n) |-> IF i = n - 1 THEN e[i] ELSE Mul(t, e[i], v)]

VecMulAssign(t, n, e, v) == [i \in Indices(n) |-> Mul(t, e[i], v)]

\* operator*(Vector<T,N> lhs, T const rhs) { return lhs *= rhs; }
VecTimesScalar(t, n, lhs, rhs) == VecMulAssign(t, n, lhs, rhs)

\* operator/(Vector<T,N> lhs, T const rhs) { return lhs /= rhs; }
VecOverScalar(t, n, lhs, rhs) == VecDivAssign(t, n, lhs, rhs)

InitScale ==
    /\ T \in ScaleTypes
    /\ \E n \in Sizes : InitVectors(n, ScaleElems(T), {Zero})

\* (a * s) / s, s not zero; a * s is kept as the second result
ScaleThenDivide(s) ==
    /\ s # Zero
    /\ PairOperation("scale_then_divide")
    /\ vresult2' = VecTimesScalar(T, N, elements, s)
    /\ vresult' = VecOverScalar(T, N, VecTimesScalar(T, N, elements, s), s)
    /\ sresult' = s
    /\ UNCHANGED <<sresult2, bresult, bresult2>>

NextScale == \E s \in ScaleOperands(T) : ScaleThenDivide(s)

SpecScale == InitScale /\ [][NextScale]_vars

\* a == b for an integer element type, |a - b| <= Tolerance * |b| in every
\* component for a floating element type
VecNear(t, n, a, b) ==
    IF t # "float" THEN \A i \in Indices(n) : a[i] = b[i]
    ELSE \A i \in Indices(n) :
            Within(a[i], b[i], Mul("float", Tolerance, AbsValue(b[i])))

\* C16 (as claimed): for all vectors a and all scalars s != 0 of any supported
\* element type, (a * s) / s == a, within tolerance for a floating element
\* type.
C16_ScaleThenDivideEveryType ==
    op = "scale_then_divide" => VecNear(T, N, vresult, elements)

\* every product a[i] * s is a value of the element type: it is not reduced
\* modulo 2^8
Representable(t, n, a, s) ==
    t = "uint8" => \A i \in Indices(n) : a[i].n * s.n < Uint8Modulus

\* C16 (amended): for all vectors a and all scalars s != 0, of any supported
\* element type, such that every product a[i] * s is representable in the
\* element type, (a * s) / s == a, within tolerance for a floating element
\* type.
C16_ScaleThenDivide ==
    op = "scale_then_divide" /\ Representable(T, N, elements, sresult) =>
        VecNear(T, N, vresult, elements)

\* a vector of a floating type that does not come back exactly
C16_Witness ==
    /\ op = "scale_then_divide"
    /\ T = "float"
    /\ vresult # elements
    /\ Representable(T, N, elements, sresult)

---------------------------------------------------------------------------
(* Claims about copies, factories, identity and determinant *)

\* C17: a vector produced by a widening constructor, a truncating
\* constructor or a swizzle (xy, xyz, rg, rgb) is an independent copy: a
\* later write to the source leaves the elements read through the produced
\* vector unchanged, and a later write to the produced vector leaves the
\* source unchanged.
C17_IndependentCopies ==
    [][/\ op' = "write_source" =>
            ValueOf(produced', elements') = ValueOf(produced, elements)
       /\ op' = "write_produced" => elements' = elements]_vars

\* the source was written after the conversion and now differs from the
\* produced vector in a component that was copied
C17_Witness ==
    /\ op = "write_source"
    /\ \E i \in Indices(produced.size) \cap Indices(N) :
          ReadIndex(elements, i) # ReadIndex(ValueOf(produced, elements), i)

\* C18: for every N in {2,3,4}, each axis factory available for a
\* Vector<T,N> is one of x and y, z for N >= 3, w for N = 4; it returns a
\* vector whose component at index 0, 1, 2 or 3 respectively is 1 and whose
\* other components are 0; and it writes no component index >= N.
C18_AxisFactories ==
    op \in {"axis_factory", "unit_factory"} =>
        /\ member \in {"x", "y"} \/ (member = "z" /\ N >= 3) \/ (member = "w" /\ N = 4)
        /\ \A i \in Indices(N) :
              ReadIndex(produced.elements, i) =
                 IF i = AliasOffset(4, member) THEN One ELSE Zero
        /\ DOMAIN lastWritten \subseteq Indices(N)

\* C18, the factories of Vector<T,2>, Vector<T,3> and Vector<T,4> alone
C18_SpecialisedAxisFactories ==
    op = "axis_factory" =>
        /\ member \in {"x", "y"} \/ (member = "z" /\ N >= 3) \/ (member = "w" /\ N = 4)
        /\ \A i \in Indices(N) :
              ReadIndex(produced.elements, i) =
                 IF i = AliasOffset(4, member) THEN One ELSE Zero
        /\ DOMAIN lastWritten \subseteq Indices(N)

\* C19: Matrix::identity() returns a matrix in which every element is
\* assigned and element [c][r] is 1 when c = r and 0 otherwise; this for
\* identity() of Matrix<T,2,2> and for identity() of the generic Matrix<T,C,R>
\* at C = R = 2.
C19_IdentityAssignsEveryElement ==
    op \in {"identity", "identity_generic"} =>
        \A c \in Indices(Cols), r \in Indices(Rows) :
            /\ mresult2[c][r] = One
            /\ mresult[c][r] = IF c = r THEN One ELSE Zero

\* C19, identity() of Matrix<T,2,2> alone
C19_Matrix22Identity ==
    op = "identity" =>
        \A c \in Indices(Cols), r \in Indices(Rows) :
            /\ mresult2[c][r] = One
            /\ mresult[c][r] = IF c = r THEN One ELSE Zero

\* m[c][r]: operator[] of the matrix, then operator[] of the column
ElementAt(m, c, r) == ReadIndex(ReadIndex(m, c), r)

\* C20: for every 2x2 matrix m, determinant(m) equals
\* m[0][0]*m[1][1] - m[1][0]*m[0][1] (for an integer type the exact integer,
\* for a floating type the difference of the two rounded products, rounded);
\* the determinant of the matrix with columns {1,2} and {3,4} is -2.
C20_Determinant ==
    op = "determinant" =>
        /\ T = "int" =>
              sresult = Lit(ElementAt(columns, 0, 0).n * ElementAt(columns, 1, 1).n
                            - ElementAt(columns, 1, 0).n * ElementAt(columns, 0, 1).n)
        /\ T = "float" =>
              sresult = Sub(T, Mul(T, ElementAt(columns, 0, 0), ElementAt(columns, 1, 1)),
                               Mul(T, ElementAt(columns, 1, 0), ElementAt(columns, 0, 1)))
        /\ columns = DeterminantTestMatrix => sresult = Lit(-2)

\* the determinant of Matrix22f{{1, 2}, {3, 4}} has been taken
C20_Witness ==
    /\ op = "determinant"
    /\ T = "float"
    /\ columns = DeterminantTestMatrix
    /\ sresult = Lit(-2)

---------------------------------------------------------------------------
(* Claims about transpose *)

\* C21: for every 2x2 matrix m and all i, j in {0,1},
\* transpose(m)[i][j] = m[j][i], and m itself is unchanged by the call.
C21_Transpose ==
    [][op' = "transpose" =>
          /\ \A i \in Indices(2), j \in Indices(2) :
                ElementAt(mresult', i, j) = ElementAt(columns, j, i)
          /\ columns' = columns]_vars

\* the transpose of a matrix that is not symmetric has been taken
C21_Witness ==
    /\ op = "transpose"
    /\ ElementAt(columns, 0, 1) # ElementAt(columns, 1, 0)
    /\ mresult # columns

\* C29: for every 2x2 matrix M and every 2-vector v, the row-vector product
\* v * M equals the column-vector product transpose(M) * v.
C29_RowProductIsTransposedColumnProduct ==
    op = "transpose" => VecEq(2, vresult, vresult2)

\* both products of a matrix that is not symmetric, and they are not zero
C29_Witness ==
    /\ op = "transpose"
    /\ ElementAt(columns, 0, 1) # ElementAt(columns, 1, 0)
    /\ vresult # ZeroVector(2)
    /\ vresult # MatVec(T, columns, elements)

---------------------------------------------------------------------------
(* The element-type trait is_vec_type<T> *)

\* the data models a build can have: the widths of int / long / pointer
DataModels == {"ILP32", "LP64", "LLP64"}

\* the standard signed and unsigned integer types of C++
StandardIntegerTypes ==
    {"signed char", "short", "int", "long", "long long",
     "unsigned char", "unsigned short", "unsigned int", "unsigned long",
     "unsigned long long"}

\* the arithmetic types: the standard integer types, the other integral
\* types (bool and the character types) and the floating-point types
FundamentalTypes ==
    StandardIntegerTypes
        \cup {"bool", "char", "wchar_t", "char16_t", "char32_t"}
        \cup {"float", "double", "long double"}

\* width in bits of a type's value representation under a data model
Bits(dm, t) ==
    CASE t \in {"bool", "char", "signed char", "unsigned char"} -> 8
      [] t \in {"short", "unsigned short", "char16_t"} -> 16
      [] t \in {"int", "unsigned int", "char32_t", "float"} -> 32
      [] t \in {"long", "unsigned long"} -> IF dm = "LP64" THEN 64 ELSE 32
      [] t \in {"long long", "unsigned long long", "double"} -> 64
      [] t = "wchar_t" -> IF dm = "LLP64" THEN 16 ELSE 32
      [] t = "long double" -> 80

\* the type that a <cstdint> alias std::[u]intN_t names under a data model
FixedWidth(dm, signed, bits) ==
    LET base == CASE bits = 8 -> "char"
                  [] bits = 16 -> "short"
                  [] bits = 32 -> "int"
                  [] bits = 64 -> IF dm = "LP64" THEN "long" ELSE "long long"
    IN  IF signed
        THEN IF bits = 8 THEN "signed char" ELSE base
        ELSE IF bits = 32 THEN "unsigned int" ELSE "unsigned " \o base

\* is_vec_type<T>::value: the primary template is false; the explicit
\* specialisations for float, double and std::[u]int{8,16,32,64}_t are true
IsVecType(dm, t) ==
    \/ t = "float"
    \/ t = "double"
    \/ \E signed \in BOOLEAN, bits \in {8, 16, 32, 64} :
          t = FixedWidth(dm, signed, bits)

InitTypes ==
    /\ dataModel \in DataModels
    /\ T \in FundamentalTypes
    /\ N = 2
    /\ elements = ZeroVector(2)
    /\ lastWritten = elements
    /\ vresult = ZeroVector(2)
    /\ vresult2 = ZeroVector(2)
    /\ mresult = ZeroMatrix
    /\ mresult2 = ZeroMatrix
    /\ scalar = Zero
    /\ columns = ZeroMatrix
    /\ columns2 = ZeroMatrix
    /\ op = "type"
    /\ member = ""
    /\ elements2 = ZeroVector(0)
    /\ produced = NoVector
    /\ sresult = Zero
    /\ sresult2 = Zero
    /\ bresult = FALSE
    /\ bresult2 = FALSE

\* is_vec_type<T>::value
InstantiateTrait ==
    /\ op = "type"
    /\ op' = "is_vec_type"
    /\ bresult' = IsVecType(dataModel, T)
    /\ UNCHANGED <<dataModel, T, N, elements, lastWritten, scalar, columns,
                   columns2, vresult, vresult2, mresult, mresult2, member,
                   elements2, produced, sresult, sresult2, bresult2>>

NextTypes == InstantiateTrait

SpecTypes == InitTypes /\ [][NextTypes]_vars

\* C22: is_vec_type<T> is true for every 32- or 64-bit IEEE float type and
\* every 8-, 16-, 32- or 64-bit signed or unsigned integer type, and false
\* for every other type, bool included.
C22_ElementTypePredicate ==
    op = "is_vec_type" =>
        (bresult <=>
            \/ T \in {"float", "double"}
            \/ /\ T \in StandardIntegerTypes
               /\ Bits(dataModel, T) \in {8, 16, 32, 64})

---------------------------------------------------------------------------
(* Angles: BaseAngle<D,T>, Degree<T>, Radian<T> *)

\* raw values of the angles are multiples of 45 (integer T) or of 22.5
\* (floating T), from -1 to MaxAngle of them
MaxAngle == 2

\* the floating value that compares unordered with every value
NaN == [n |-> 0, d |-> 0]
IsNaN(x) == x.d = 0

\* the unit tags D of BaseAngle<D,T>
Units == {"Degree", "Radian"}

\* raw values an angle of element type t can hold
AngleValues(t) ==
    IF t = "float"
    THEN {Round(t, Rat(45 * k, 2)) : k \in -1 .. MaxAngle}
             \cup {Literal(t, 1), NaN}
    ELSE {Lit(45 * k) : k \in -1 .. MaxAngle}

\* the built-in lhs == rhs and lhs < rhs of the element type
RawEq(lhs, rhs) == ~IsNaN(lhs) /\ ~IsNaN(rhs) /\ lhs = rhs
RawLess(lhs, rhs) == ~IsNaN(lhs) /\ ~IsNaN(rhs) /\ ~LessEq(rhs, lhs)

\* the comparison operators of BaseAngle<D,T>:
\*   operator== { return lhs.value == rhs.value; }
\*   operator!= { return !(lhs == rhs); }
\*   operator<  { return lhs.value < rhs.value; }
\*   operator>  { return rhs < lhs; }
\*   operator<= { return !(lhs > rhs); }
\*   operator>= { return !(lhs < rhs); }
Relations == {"==", "!=", "<", ">", "<=", ">="}

RECURSIVE AngleCompare(_, _, _)
AngleCompare(rel, lhs, rhs) ==
    CASE rel = "==" -> RawEq(lhs, rhs)
      [] rel = "!=" -> ~AngleCompare("==", lhs, rhs)
      [] rel = "<"  -> RawLess(lhs, rhs)
      [] rel = ">"  -> AngleCompare("<", rhs, lhs)
      [] rel = "<=" -> ~AngleCompare(">", lhs, rhs)
      [] rel = ">=" -> ~AngleCompare("<", lhs, rhs)

\* constants::pi<T> = static_cast<T>(3.14159265358979...), the literal taken
\* as 355/113, which rounds to the same value of T
Pi(t) == Round(t, Rat(355, 113))

\* constants::degToRad<T> = pi<T> / static_cast<T>(180.0)
DegToRad(t) == Div(t, Pi(t), Lit(180))

\* constants::radToDeg<T> = static_cast<T>(180.0) / pi<T>
RadToDeg(t) == Div(t, Lit(180), Pi(t))

\* Radian(BaseAngle<Degree,T> val) : BaseAngle<math::Degree,T>{T{val} * constants::degToRad<T>}
\* the value handed to the mem-initialiser, and the class it names
RadianFromDegree(t, val) == Mul(t, val, DegToRad(t))
RadianFromDegreeInitialises == "BaseAngle<Degree,T>"

\* class Radian : public BaseAngle<Radian,T>, class Degree : public BaseAngle<Degree,T>
DirectBase(unit) == "BaseAngle<" \o unit \o ",T>"

\* Degree(BaseAngle<Radian,T> val): the value times radToDeg
DegreeFromRadian(t, val) == Mul(t, val, RadToDeg(t))

\* D<T> a{x}, b{y};
InitAngle ==
    /\ T \in ElementTypes
    /\ member \in Units
    /\ scalar \in AngleValues(T)
    /\ sresult2 \in AngleValues(T)
    /\ op = "value_ctor"
    /\ N = 2
    /\ elements = ZeroVector(2)
    /\ lastWritten = elements
    /\ elements2 = ZeroVector(0)
    /\ vresult = ZeroVector(2)
    /\ vresult2 = ZeroVector(2)
    /\ columns = ZeroMatrix
    /\ columns2 = ZeroMatrix
    /\ mresult = ZeroMatrix
    /\ mresult2 = ZeroMatrix
    /\ produced = NoVector
    /\ sresult = Zero
    /\ bresult = FALSE
    /\ bresult2 = FALSE
    /\ dataModel = "LP64"

AngleOperation(name) ==
    /\ op = "value_ctor"
    /\ op' = name
    /\ UNCHANGED <<dataModel, T, N, elements, lastWritten, columns, columns2,
                   vresult, vresult2, mresult, mresult2, member, elements2,
                   produced, bresult2>>

\* D<T> a; (default-initialisation) or D<T> a{}; (value-initialisation):
\* BaseAngle() = default and value has no initialiser, so only
\* value-initialisation zeroes it
ConstructDefaultAngle(valueInit) ==
    /\ AngleOperation(IF valueInit THEN "angle_value_init" ELSE "angle_default_ctor")
    /\ scalar' \in IF valueInit THEN {Zero} ELSE AngleValues(T)
    /\ UNCHANGED <<sresult, sresult2, bresult>>

\* a rel b
CompareAngles(rel) ==
    /\ AngleOperation(rel)
    /\ bresult' = AngleCompare(rel, scalar, sresult2)
    /\ UNCHANGED <<scalar, sresult, sresult2>>

\* Degree<T>{Radian<T>{Degree<T>{d}}} for a floating T and a number d
ConvertRoundTrip ==
    /\ T = "float"
    /\ member = "Degree"
    /\ ~IsNaN(scalar)
    /\ AngleOperation(IF RadianFromDegreeInitialises = DirectBase("Radian")
                      THEN "round_trip" ELSE "round_trip_ill_formed")
    /\ sresult' = DegreeFromRadian(T, RadianFromDegree(T, scalar))
    /\ UNCHANGED <<scalar, sresult2, bresult>>

NextAngle ==
    \/ \E valueInit \in BOOLEAN : ConstructDefaultAngle(valueInit)
    \/ \E rel \in Relations : CompareAngles(rel)
    \/ ConvertRoundTrip

SpecAngle == InitAngle /\ [][NextAngle]_vars

\* C23: a default-constructed Degree<T> or Radian<T> holds the raw value 0.
C23_DefaultAngleIsZero ==
    op \in {"angle_default_ctor", "angle_value_init"} => scalar = Zero

\* C23, value-initialisation alone: D<T>{} holds 0
C23_ValueInitialisedAngleIsZero ==
    op = "angle_value_init" => scalar = Zero

\* C24: for every value d of a floating element type, constructing Radian from
\* Degree(d) and then Degree from that Radian yields an angle, and its value
\* is d within floating tolerance.
C24_DegreeRadianRoundTrip ==
    op \in {"round_trip", "round_trip_ill_formed"} =>
        /\ op = "round_trip"
        /\ LessEq(AbsValue(Sub("int", sresult, scalar)),
                  Mul("int", Tolerance, AbsValue(scalar)))

\* C24, the arithmetic alone: (d * degToRad) * radToDeg is d within tolerance
C24_RoundTripArithmetic ==
    op \in {"round_trip", "round_trip_ill_formed"} =>
        LessEq(AbsValue(Sub("int", sresult, scalar)),
               Mul("int", Tolerance, AbsValue(scalar)))

\* the comparison rel of the element type applied to two raw values
RawCompare(rel, a, b) ==
    CASE rel = "==" -> RawEq(a, b)
      [] rel = "!=" -> ~RawEq(a, b)
      [] rel = "<"  -> RawLess(a, b)
      [] rel = ">"  -> RawLess(b, a)
      [] rel = "<=" -> RawLess(a, b) \/ RawEq(a, b)
      [] rel = ">=" -> RawLess(b, a) \/ RawEq(a, b)

\* C25: for all angles a and b of the same unit and element type, each of
\* a == b, a != b, a < b, a <= b, a > b and a >= b returns the result of the
\* same comparison applied to the raw values of a and b.
C25_AngleComparisons ==
    op \in Relations => bresult = RawCompare(op, scalar, sresult2)

\* C25, ordered values alone: the six operators agree with the raw comparison
\* whenever neither value is a NaN
C25_OrderedAngleComparisons ==
    (op \in Relations /\ ~IsNaN(scalar) /\ ~IsNaN(sresult2)) =>
        bresult = RawCompare(op, scalar, sresult2)

---------------------------------------------------------------------------
(* Claims about the length of a vector *)

\* C26: for every supported element type T (integer as well as floating) and
\* every N, isZeroLength(v) returns true when every component of v is zero.
C26_ZeroVectorIsZeroLength ==
    (op = "is_zero_length" /\ \A i \in Indices(N) : ReadIndex(elements, i) = Zero) =>
        bresult

\* C26, floating T alone: isZeroLength is true of the zero vector, and false
\* of the vectors with a component of 0.1 or more in magnitude
C26_FloatZeroLength ==
    (op = "is_zero_length" /\ T = "float") =>
        (bresult <=> \A i \in Indices(N) : ReadIndex(elements, i) = Zero)

---------------------------------------------------------------------------
(* Claims about increment *)

\* C27: for every integer vector v, v++ returns a vector equal to the value v
\* held before the call, and after the call every component of v is exactly
\* one greater than before.
C27_PostIncrement ==
    (op \in {"post_increment", "post_increment_ill_formed"} /\ T = "int") =>
        /\ op = "post_increment"
        /\ \A i \in Indices(N) :
              /\ ReadIndex(vresult, i) = elements2[i]
              /\ ReadIndex(elements, i) = Add(T, elements2[i], One)

\* C27, the operator of detail/Vector2.hh alone
C27_PostIncrementVector2 ==
    (op = "post_increment" /\ T = "int") =>
        \A i \in Indices(N) :
            /\ ReadIndex(vresult, i) = elements2[i]
            /\ ReadIndex(elements, i) = Add(T, elements2[i], One)

---------------------------------------------------------------------------
(* Claims about the determinant of a product *)

\* C28: for all 2x2 matrices A and B over an integer element type,
\* determinant(A * B) == determinant(A) * determinant(B).
C28_DeterminantMultiplicative ==
    (op = "determinant_product" /\ T = "int") => sresult = sresult2

\* the determinant of a product of two integer matrices that are not
\* diagonal and not singular
C28_Witness ==
    /\ op = "determinant_product"
    /\ T = "int"
    /\ sresult # Zero
    /\ ElementAt(columns, 1, 0) # Zero
    /\ ElementAt(columns2, 0, 1) # Zero
    /\ mresult # MatMul(T, columns2, columns)

---------------------------------------------------------------------------
(* Claims about rebuilding a vector from a swizzle *)

\* C30: Vector3(v.xy(), v.z) == v for every 3-vector v, and
\* Vector4(v.xyz(), v.w) == v for every 4-vector v.
C30_RebuildFromSwizzle ==
    op = "rebuild" =>
        /\ bresult
        /\ produced.size = N
        /\ \A i \in Indices(N) : produced.elements[i] = ReadIndex(elements, i)

\* a vector whose last two components differ was rebuilt, and it is a copy
C30_Witness ==
    /\ op = "rebuild"
    /\ ReadIndex(elements, N - 1) # ReadIndex(elements, N - 2)
    /\ ReadIndex(elements, 0) # ReadIndex(elements, 1)
    /\ produced.own
    /\ bresult

============================================================================
